---- MODULE Spec2Model ----
(***************************************************************************)
(* A model of the chess console of src/main.py: the board / tile / piece   *)
(* object graph (ChessBoard, ChessTile, ChessPiece), the game with its     *)
(* moves stack (ChessGame), the command dispatcher and its handlers        *)
(* (ChessConsole), the notation codec and the main loop.                   *)
(*                                                                         *)
(* Representation.  Python strings are sequences of one-character strings  *)
(* (<<"a", "7">> is 'a7').  A ChessPiece object is a number 1..32 (the     *)
(* order in which set_up_board creates it), None is NoPiece for a piece    *)
(* reference and NoCoord for a coordinate.  Return values of get_input are *)
(* written as Python prints them: "0", "-1", "EXIT".  An exception that    *)
(* nothing catches ends the main loop; its class name is kept in `raised`. *)
(***************************************************************************)
EXTENDS Integers, Sequences, FiniteSets, TLC

\* ------------------------------------------------------------------ bounds
\* Longest moves stack the model explores.
MaxMoves == 2
\* Longest moves stack of a game the model saves.
MaxSavedMoves == 1
\* Longest string the codec specification feeds to notation_to_coord.
MaxLen == 3
\* Largest index, of either sign, the specification of the pure functions
\* gives to get_tile.
MaxIndex == 9

\* ------------------------------------------------------- pieces and tiles
NoPiece == 0
NoCoord == <<-1, -1>>
Pieces == 1..32
Coords == (0..7) \X (0..7)

\* The format lists of set_up_board.
initial_rows ==
    << <<"R", "N", "B", "Q", "K", "B", "N", "R">>,
       <<"P", "P", "P", "P", "P", "P", "P", "P">> >>

\* The four set_up_row calls of set_up_board, in order: row, format, team.
setup_calls ==
    << [row |-> 0, format_list |-> initial_rows[1], team |-> 2],
       [row |-> 1, format_list |-> initial_rows[2], team |-> 2],
       [row |-> 6, format_list |-> initial_rows[2], team |-> 1],
       [row |-> 7, format_list |-> initial_rows[1], team |-> 1] >>

\* ChessPiece._piece_type and ChessPiece._team of the p-th piece created.
piece_type(p) == setup_calls[((p - 1) \div 8) + 1].format_list[((p - 1) % 8) + 1]
team(p) == setup_calls[((p - 1) \div 8) + 1].team

\* ChessBoard.is_in_bounds
is_in_bounds(coord) ==
    ~ \E i \in 1..2 : coord[i] < 0 \/ coord[i] > 7

\* A board before set_up_board: 64 empty tiles, no piece placed.  board is
\* ChessTile._piece of the tile at each index, coord is ChessPiece._coord and
\* moved is ChessPiece._moved of each piece.
empty_board ==
    [board |-> [i \in 0..7 |-> [j \in 0..7 |-> NoPiece]],
     coord |-> [p \in Pieces |-> NoCoord],
     moved |-> [p \in Pieces |-> FALSE]]

\* ChessPiece.is_moved
is_moved(b, p) == b.moved[p]

\* Indexing a Python list of length n: an index -n .. n-1 is accepted, a
\* negative one counts from the end; any other raises IndexError.
index_ok(i, n) == -n <= i /\ i < n
list_pos(i, n) == IF i < 0 THEN i + n ELSE i

\* ChessBoard.get_tile: the coordinate (ChessTile._coord) of the tile that
\* self._board[coord[0]][coord[1]] is, or the exception the indexing raises.
get_tile(coord) ==
    IF ~ index_ok(coord[1], 8) \/ ~ index_ok(coord[2], 8)
    THEN [raised |-> "IndexError", coord |-> NoCoord]
    ELSE [raised |-> "none", coord |-> <<list_pos(coord[1], 8), list_pos(coord[2], 8)>>]

\* ChessBoard.get_tile(coord).get_piece(), for a coordinate in bounds
piece_on(b, coord) == b.board[coord[1]][coord[2]]

\* set_piece_coord without "current_tile.set_piece(None)": the tile the piece
\* leaves keeps it.
set_piece_coord_keeps_tile(b, piece, coord) ==
    LET occupant == piece_on(b, coord)
        b1 == IF occupant # NoPiece
              THEN [b EXCEPT !.coord[occupant] = NoCoord]
              ELSE b
    IN  [b1 EXCEPT !.board[coord[1]][coord[2]] = piece, !.coord[piece] = coord]

\* set_piece_coord without "new_tile.get_piece().set_coord(None)": the piece
\* that was on the tile keeps its coordinate.
set_piece_coord_no_detach(b, piece, coord) ==
    LET current == b.coord[piece]
        b2 == IF current # NoCoord
              THEN [b EXCEPT !.board[current[1]][current[2]] = NoPiece]
              ELSE b
    IN  [b2 EXCEPT !.board[coord[1]][coord[2]] = piece, !.coord[piece] = coord]

\* set_piece_coord with "current_tile.set_piece(None)" after
\* "new_tile.set_piece(piece)", for the tile the piece was on at the call.
set_piece_coord_vacates_last(b, piece, coord) ==
    LET occupant == piece_on(b, coord)
        b1 == IF occupant # NoPiece
              THEN [b EXCEPT !.coord[occupant] = NoCoord]
              ELSE b
        current == b.coord[piece]
        b2 == [b1 EXCEPT !.board[coord[1]][coord[2]] = piece, !.coord[piece] = coord]
    IN  IF current # NoCoord
        THEN [b2 EXCEPT !.board[current[1]][current[2]] = NoPiece]
        ELSE b2

\* ChessBoard.set_piece_coord, statement by statement.
set_piece_coord(b, piece, coord) ==
    LET occupant == piece_on(b, coord)
        b1 == IF occupant # NoPiece
              THEN [b EXCEPT !.coord[occupant] = NoCoord]
              ELSE b
        current == b1.coord[piece]
        b2 == IF current # NoCoord
              THEN [b1 EXCEPT !.board[current[1]][current[2]] = NoPiece]
              ELSE b1
    IN  [b2 EXCEPT !.board[coord[1]][coord[2]] = piece, !.coord[piece] = coord]

\* set_up_row that fills the row from its last column to its first.
RECURSIVE set_up_row_reversed(_, _, _, _)
set_up_row_reversed(b, row, first, i) ==
    IF i > 7 THEN b
    ELSE set_up_row_reversed(set_piece_coord(b, first + i + 1, <<row, 7 - i>>),
                             row, first, i + 1)

\* ChessBoard.set_up_row: the pieces first+1 .. first+8 are created and placed.
RECURSIVE set_up_row(_, _, _, _)
set_up_row(b, row, first, i) ==
    IF i > 7 THEN b
    ELSE set_up_row(set_piece_coord(b, first + i + 1, <<row, i>>), row, first, i + 1)

\* ChessBoard.set_up_board
RECURSIVE set_up_board(_, _)
set_up_board(b, k) ==
    IF k > Len(setup_calls) THEN b
    ELSE set_up_board(set_up_row(b, setup_calls[k].row, 8 * (k - 1), 0), k + 1)

\* ChessBoard.__init__
ChessBoard == set_up_board(empty_board, 1)

\* ChessGame.__init__
ChessGame == [b |-> ChessBoard, moves_stack |-> <<>>]

\* ----------------------------------------------------------------- strings
\* The characters of the model.  "U+0663" stands for the one character
\* ARABIC-INDIC DIGIT THREE (str.isnumeric() is True, int() gives 3) and
\* "U+00B2" for SUPERSCRIPT TWO (str.isnumeric() is True, int() raises
\* ValueError); every other character is written as itself.
letters == <<"a", "b", "c", "d", "e", "f", "g", "h">>
ascii_digits == <<"0", "1", "2", "3", "4", "5", "6", "7", "8", "9">>

\* str.isnumeric() of one character
isnumeric(ch) ==
    \/ \E i \in 1..Len(ascii_digits) : ascii_digits[i] = ch
    \/ ch \in {"U+0663", "U+00B2"}

\* Whether int(ch) returns (it raises ValueError otherwise).
int_accepts(ch) ==
    \/ \E i \in 1..Len(ascii_digits) : ascii_digits[i] = ch
    \/ ch = "U+0663"

\* int(ch) of a character int() accepts
int_of(ch) ==
    IF ch = "U+0663" THEN 3
    ELSE (CHOOSE i \in 1..Len(ascii_digits) : ascii_digits[i] = ch) - 1

\* str(n) of a one-digit number
str_of(n) == <<ascii_digits[n + 1]>>

\* str.isspace() of one character
isspace(ch) == ch \in {" ", "\t"}

\* str.split() with no argument: the maximal runs of non-whitespace.
RECURSIVE split_from(_, _, _)
split_from(s, word, acc) ==
    IF s = <<>>
    THEN IF word = <<>> THEN acc ELSE Append(acc, word)
    ELSE IF isspace(Head(s))
         THEN split_from(Tail(s), <<>>, IF word = <<>> THEN acc ELSE Append(acc, word))
         ELSE split_from(Tail(s), Append(word, Head(s)), acc)

split(s) == split_from(s, <<>>, <<>>)

\* str.strip()
RECURSIVE lstrip(_)
lstrip(s) == IF s # <<>> /\ isspace(Head(s)) THEN lstrip(Tail(s)) ELSE s

RECURSIVE rstrip(_)
rstrip(s) ==
    IF s # <<>> /\ isspace(s[Len(s)]) THEN rstrip(SubSeq(s, 1, Len(s) - 1)) ELSE s

strip(s) == rstrip(lstrip(s))

\* ------------------------------------------------------------ the codec
\* The three ways notation_to_coord ends: a coordinate, the value -1, or an
\* exception of the named class.
Parsed(coord)  == [kind |-> "coord", coord |-> coord]
ParseFail      == [kind |-> "-1", coord |-> NoCoord]
ParseRaise(ex) == [kind |-> ex, coord |-> NoCoord]

\* ChessConsole.notation_to_coord
notation_to_coord(notation) ==
    IF Len(notation) > 2 THEN ParseFail
    ELSE IF Len(notation) < 1 THEN ParseRaise("IndexError")      \* notation[0]
    ELSE LET hits == {i \in 1..Len(letters) : letters[i] = notation[1]}
             tuple_0 == IF hits = {} THEN -1 ELSE (CHOOSE i \in hits : TRUE) - 1
         IN  IF Len(notation) < 2 THEN ParseRaise("IndexError")  \* notation[1]
             ELSE IF ~ isnumeric(notation[2]) THEN ParseFail
             ELSE IF ~ int_accepts(notation[2]) THEN ParseRaise("ValueError")
             ELSE LET tuple_1 == 8 - int_of(notation[2])
                  IN  IF hits = {} \/ tuple_1 < 0 \/ tuple_1 > 7
                      THEN ParseFail
                      ELSE Parsed(<<tuple_1, tuple_0>>)

\* What ms_get_coord_to_notation writes to Microservice/chess_move.txt.
ms_request(coord) == <<"(">> \o str_of(coord[1]) \o <<",">> \o str_of(coord[2]) \o <<")">>

\* The external translator that rewrites Microservice/chess_move.txt: the
\* inverse mapping of notation_to_coord, row/col -> two-character notation.
translator(coord) == <<letters[coord[2] + 1], ascii_digits[(8 - coord[1]) + 1]>>

\* What the world outside the process does during one call of
\* ms_get_coord_to_notation: the translator rewrites the file within the
\* 0.3 s the method sleeps ("translated"), it does not ("untouched"), or the
\* file cannot be opened ("OSError").
MsOutcomes == {"translated", "untouched", "OSError"}

\* ChessConsole.ms_get_coord_to_notation: the line read back, or the exception.
ms_get_coord_to_notation(coord, outcome) ==
    IF outcome = "OSError"
    THEN [raised |-> "OSError", line |-> <<>>]
    ELSE [raised |-> "none",
          line |-> strip(IF outcome = "translated"
                         THEN translator(coord)
                         ELSE ms_request(coord))]

\* ---------------------------------------------------------- the console
\* The command names, as Python strings.
s_help    == <<"h", "e", "l", "p">>
s_board   == <<"b", "o", "a", "r", "d">>
s_move    == <<"m", "o", "v", "e">>
s_newgame == <<"n", "e", "w", "g", "a", "m", "e">>
s_save    == <<"s", "a", "v", "e">>
s_load    == <<"l", "o", "a", "d">>
s_undo    == <<"u", "n", "d", "o">>
s_exit    == <<"e", "x", "i", "t">>
s_all     == <<"a", "l", "l">>

\* ChessConsole._command_dict: for each command name, the handler and the
\* number of arguments it takes (the command word included).
command_dict ==
    (s_help    :> [cmd_function |-> "cmd_help",    cmd_arg_count |-> 2]) @@
    (s_board   :> [cmd_function |-> "cmd_board",   cmd_arg_count |-> 1]) @@
    (s_move    :> [cmd_function |-> "cmd_move",    cmd_arg_count |-> 3]) @@
    (s_newgame :> [cmd_function |-> "cmd_newgame", cmd_arg_count |-> 1]) @@
    (s_save    :> [cmd_function |-> "cmd_save",    cmd_arg_count |-> 1]) @@
    (s_load    :> [cmd_function |-> "cmd_load",    cmd_arg_count |-> 1]) @@
    (s_undo    :> [cmd_function |-> "cmd_undo",    cmd_arg_count |-> 1]) @@
    (s_exit    :> [cmd_function |-> "cmd_exit",    cmd_arg_count |-> 1])

\* The pieces pickle reaches from a game: those on the tiles of the board and
\* those in the records of the moves stack.
reachable_pieces(g) ==
    ({g.b.board[i][j] : i \in 0..7, j \in 0..7}
        \cup {g.moves_stack[k][3] : k \in 1..Len(g.moves_stack)}) \ {NoPiece}

\* pickle.dump(self.game, outfile): what is written of the game, namely the
\* piece of each tile, the fields of each piece reached (a piece reached twice
\* is written once), and the records of the moves stack.
pickle_dump(g) ==
    [tiles |-> g.b.board,
     pieces |-> [p \in reachable_pieces(g) |->
                    [coord |-> g.b.coord[p], moved |-> g.b.moved[p]]],
     moves_stack |-> g.moves_stack]

\* pickle.load(infile): the game rebuilt from what was written.  A piece that
\* was not written does not exist in the loaded game.
pickle_load(data) ==
    [b |-> [board |-> data.tiles,
            coord |-> [p \in Pieces |->
                          IF p \in DOMAIN data.pieces
                          THEN data.pieces[p].coord ELSE NoCoord],
            moved |-> [p \in Pieces |->
                          IF p \in DOMAIN data.pieces
                          THEN data.pieces[p].moved ELSE FALSE]],
     moves_stack |-> data.moves_stack]

\* The save file before the first save: it does not exist.
NoFile == [exists |-> FALSE, data |-> pickle_dump(ChessGame)]

\* How a call of get_input ends: the console's game and the save file after
\* it, and either the value returned (ret) or the exception that left it
\* (raised; ret is then "None").
Returns(g, f, value) == [game |-> g, save_file |-> f, ret |-> value, raised |-> "none"]
Raises(g, f, ex)     == [game |-> g, save_file |-> f, ret |-> "None", raised |-> ex]

\* ChessConsole.cmd_help
cmd_help(g, f, arguments) ==
    IF arguments[1] = s_all THEN Returns(g, f, "0")
    ELSE IF arguments[1] \in DOMAIN command_dict THEN Returns(g, f, "0")
    ELSE Returns(g, f, "-1")

\* ChessPiece.get_piece_string
get_piece_string(p) == <<IF team(p) = 1 THEN "w" ELSE "b", piece_type(p)>>

\* ChessConsole.cmd_board: the rows printed; it returns 0.
board_rows(g) ==
    [i \in 0..7 |->
        [j \in 0..7 |->
            IF g.b.board[i][j] = NoPiece
            THEN <<".", ".">>
            ELSE get_piece_string(g.b.board[i][j])]]

cmd_board(g, f, arguments) == Returns(g, f, "0")

\* ChessConsole.cmd_move.  ms holds the outcomes of its two calls of
\* ms_get_coord_to_notation.
cmd_move(g, f, arguments, ms) ==
    LET first == notation_to_coord(arguments[1]) IN
    IF first.kind \notin {"coord", "-1"} THEN Raises(g, f, first.kind)
    ELSE IF first.kind = "-1" THEN Returns(g, f, "-1")
    ELSE
    LET second == notation_to_coord(arguments[2]) IN
    IF second.kind \notin {"coord", "-1"} THEN Raises(g, f, second.kind)
    ELSE IF second.kind = "-1" THEN Returns(g, f, "-1")
    ELSE
    LET piece_coord == first.coord
        piece == piece_on(g.b, piece_coord)
    IN
    IF piece = NoPiece THEN Returns(g, f, "-1")
    ELSE
    LET destination_coord == second.coord
        destination_piece == piece_on(g.b, destination_coord)
        moved == [g EXCEPT !.b = set_piece_coord(g.b, piece, destination_coord)]
        said_from == ms_get_coord_to_notation(piece_coord, ms[1])
        said_to == ms_get_coord_to_notation(destination_coord, ms[2])
    IN
    IF said_from.raised # "none" THEN Raises(moved, f, said_from.raised)
    ELSE IF said_to.raised # "none" THEN Raises(moved, f, said_to.raised)
    ELSE Returns([moved EXCEPT !.moves_stack =
                     Append(@, <<piece_coord, destination_coord, destination_piece>>)],
                 f, "0")

\* cmd_newgame that sets up a new board and keeps the moves stack.
cmd_newgame_keeps_history(g, f, user_confirm) ==
    IF user_confirm = <<"y">> THEN Returns([g EXCEPT !.b = ChessBoard], f, "0")
    ELSE IF user_confirm # <<"n">> THEN Returns(g, f, "-1")
    ELSE Returns(g, f, "0")

\* ChessConsole.cmd_newgame
cmd_newgame(g, f, user_confirm) ==
    IF user_confirm = <<"y">> THEN Returns(ChessGame, f, "0")
    ELSE IF user_confirm # <<"n">> THEN Returns(g, f, "-1")
    ELSE Returns(g, f, "0")

\* cmd_undo without the lines that put the captured piece back.
cmd_undo_no_restore(g, f, ms) ==
    IF Len(g.moves_stack) < 1 THEN Returns(g, f, "-1")
    ELSE
    LET last_move == g.moves_stack[Len(g.moves_stack)]
        popped == [g EXCEPT !.moves_stack = SubSeq(@, 1, Len(@) - 1)]
        moved_piece == piece_on(g.b, last_move[2])
        undone == [popped EXCEPT !.b = set_piece_coord(g.b, moved_piece, last_move[1])]
        said_from == ms_get_coord_to_notation(last_move[1], ms[1])
        said_to == ms_get_coord_to_notation(last_move[2], ms[2])
    IN
    IF said_from.raised # "none" THEN Raises(undone, f, said_from.raised)
    ELSE IF said_to.raised # "none" THEN Raises(undone, f, said_to.raised)
    ELSE Returns(undone, f, "0")

\* cmd_undo without its check of the length of the stack: pop() of the empty
\* list raises IndexError.
cmd_undo_unguarded(g, f, ms) ==
    IF Len(g.moves_stack) < 1 THEN Raises(g, f, "IndexError")
    ELSE cmd_undo_no_restore(g, f, ms)

\* ChessConsole.cmd_undo
cmd_undo(g, f, ms) ==
    IF Len(g.moves_stack) < 1 THEN Returns(g, f, "-1")
    ELSE
    LET last_move == g.moves_stack[Len(g.moves_stack)]
        popped == [g EXCEPT !.moves_stack = SubSeq(@, 1, Len(@) - 1)]
        last_move_select_coord == last_move[1]
        last_move_dest_coord == last_move[2]
        last_move_captured_piece == last_move[3]
        moved_piece == piece_on(g.b, last_move_dest_coord)
    IN
    IF moved_piece = NoPiece
    THEN \* set_piece_coord(None, ...) raises at piece.get_coord(), after it
         \* has cleared the coordinate of the piece on the source tile
         LET occupant == piece_on(g.b, last_move_select_coord)
         IN  Raises(IF occupant # NoPiece
                    THEN [popped EXCEPT !.b.coord[occupant] = NoCoord]
                    ELSE popped,
                    f, "AttributeError")
    ELSE
    LET b1 == set_piece_coord(g.b, moved_piece, last_move_select_coord)
        b2 == IF last_move_captured_piece # NoPiece
              THEN set_piece_coord(b1, last_move_captured_piece, last_move_dest_coord)
              ELSE b1
        undone == [popped EXCEPT !.b = b2]
        said_from == ms_get_coord_to_notation(last_move_select_coord, ms[1])
        said_to == ms_get_coord_to_notation(last_move_dest_coord, ms[2])
    IN
    IF said_from.raised # "none" THEN Raises(undone, f, said_from.raised)
    ELSE IF said_to.raised # "none" THEN Raises(undone, f, said_to.raised)
    ELSE Returns(undone, f, "0")

\* ChessConsole.cmd_save: pickle.dump writes the whole game to save_file.
cmd_save(g, f, user_confirm) ==
    IF user_confirm = <<"n">> THEN Returns(g, f, "0")
    ELSE IF user_confirm # <<"y">> THEN Returns(g, f, "-1")
    ELSE Returns(g, [exists |-> TRUE, data |-> pickle_dump(g)], "0")

\* cmd_load that takes only the board of the loaded game.
cmd_load_board_only(g, f, user_confirm) ==
    IF user_confirm = <<"n">> THEN Returns(g, f, "0")
    ELSE IF user_confirm # <<"y">> THEN Returns(g, f, "-1")
    ELSE IF ~ f.exists THEN Raises(g, f, "FileNotFoundError")
    ELSE Returns([g EXCEPT !.b = pickle_load(f.data).b], f, "0")

\* ChessConsole.cmd_load: open raises when there is no save_file.
cmd_load(g, f, user_confirm) ==
    IF user_confirm = <<"n">> THEN Returns(g, f, "0")
    ELSE IF user_confirm # <<"y">> THEN Returns(g, f, "-1")
    ELSE IF ~ f.exists THEN Raises(g, f, "FileNotFoundError")
    ELSE Returns(pickle_load(f.data), f, "0")

\* ChessConsole.cmd_exit
cmd_exit(g, f, user_confirm) ==
    IF user_confirm = <<"y">> THEN Returns(g, f, "EXIT")
    ELSE IF user_confirm # <<"n">> THEN Returns(g, f, "-1")
    ELSE Returns(g, f, "0")

\* get_input with "<" for "!=" in its check of the argument count.
dispatch_count_below(input_string) ==
    IF Len(input_string) = 0 THEN "-1"
    ELSE LET arguments == split(input_string) IN
         IF Len(arguments) < 1 THEN "IndexError"
         ELSE IF arguments[1] \notin DOMAIN command_dict THEN "-1"
         ELSE IF Len(arguments) < command_dict[arguments[1]].cmd_arg_count THEN "-1"
         ELSE command_dict[arguments[1]].cmd_function

\* ChessConsole.get_input up to the call of the handler: the handler it
\* calls, or how it ends without calling one.
dispatch(input_string) ==
    IF Len(input_string) = 0 THEN "-1"
    ELSE LET arguments == split(input_string) IN
         IF Len(arguments) < 1 THEN "IndexError"                \* arguments[0]
         ELSE IF arguments[1] \notin DOMAIN command_dict THEN "-1"
         ELSE IF Len(arguments) # command_dict[arguments[1]].cmd_arg_count THEN "-1"
         ELSE command_dict[arguments[1]].cmd_function

\* ChessConsole.get_input(True): the line typed, the answer typed to the
\* handler's prompt if it asks, the outcomes of the translator calls.
get_input(g, f, input_string, user_confirm, ms) ==
    LET to == dispatch(input_string)
        arguments == Tail(split(input_string))
    IN  CASE to = "-1"          -> Returns(g, f, "-1")
          [] to = "IndexError"  -> Raises(g, f, "IndexError")
          [] to = "cmd_help"    -> cmd_help(g, f, arguments)
          [] to = "cmd_board"   -> cmd_board(g, f, arguments)
          [] to = "cmd_move"    -> cmd_move(g, f, arguments, ms)
          [] to = "cmd_newgame" -> cmd_newgame(g, f, user_confirm)
          [] to = "cmd_save"    -> cmd_save(g, f, user_confirm)
          [] to = "cmd_load"    -> cmd_load(g, f, user_confirm)
          [] to = "cmd_undo"    -> cmd_undo(g, f, ms)
          [] to = "cmd_exit"    -> cmd_exit(g, f, user_confirm)

\* ------------------------------------------------------------- the state
VARIABLES
    game,        \* ChessConsole.game: its board (b) and its moves_stack
    save_file,   \* the file 'save_file'
    run,         \* the flag of the main loop; FALSE once the program has ended
    ret,         \* what the last call of get_input returned
    raised,      \* the exception that ended the program, "none" if none did
    called,      \* the handler the last call of get_input called, "none" if none
    snaps,       \* history: the game before each move on the moves stack
    saved,       \* history: the game at the time of the last save
    saved_snaps, \* history: snaps at the time of the last save
    streak,      \* history: how many of the undos typed in a row have succeeded
    codec,       \* the run of the codec specification
    gd           \* the GameDisplay: the board object it draws (chessboard) and
                 \* whether that object is the board of the console's game

vars == <<game, save_file, run, ret, raised, called, snaps, saved, saved_snaps, streak,
         codec, gd>>

\* The codec is idle in the specification of the game.
codec_idle ==
    [law |-> "none", pc |-> "idle", text |-> <<>>, coord |-> NoCoord,
     parsed |-> [kind |-> "pending", coord |-> NoCoord],
     said |-> [raised |-> "pending", line |-> <<>>],
     tile |-> [raised |-> "pending", coord |-> NoCoord]]

\* GameDisplay.__init__(c.b): the display keeps the board object of the game
\* the program starts with, which is then the board of the console's game.
GameDisplay == [chessboard |-> ChessBoard, is_game_board |-> TRUE]

\* The __main__ block before the first iteration of the loop.
Init ==
    /\ game = ChessGame
    /\ save_file = NoFile
    /\ run = TRUE
    /\ ret = "None"
    /\ raised = "none"
    /\ called = "none"
    /\ snaps = <<>>
    /\ saved = ChessGame
    /\ saved_snaps = <<>>
    /\ streak = 0
    /\ codec = codec_idle
    /\ gd = GameDisplay

\* ------------------------------------------------------------ the inputs
sq(file, rank) == <<file, rank>>

\* Tokens joined by single spaces.
RECURSIVE join(_)
join(tokens) ==
    IF Len(tokens) = 0 THEN <<>>
    ELSE IF Len(tokens) = 1 THEN tokens[1]
    ELSE tokens[1] \o <<" ">> \o join(Tail(tokens))

\* The well-formed moves typed.  At the start a8 holds a rook of team 2, a7 a
\* pawn of team 2, a2 a pawn of team 1 and a5 is empty: a move to an empty
\* tile, a capture of a piece of the same team, a capture of a piece of the
\* other team, a move from a tile that is empty at the start, and a move of
\* a piece to its own tile.
MoveLines ==
    {join(<<s_move, sq("a", "7"), sq("a", "5")>>),
     join(<<s_move, sq("a", "8"), sq("a", "7")>>),
     join(<<s_move, sq("a", "2"), sq("a", "7")>>),
     join(<<s_move, sq("a", "5"), sq("a", "7")>>),
     join(<<s_move, sq("a", "7"), sq("a", "7")>>)}

\* Moves with a malformed notation.
BadMoveLines ==
    {join(<<s_move, <<"a">>, sq("a", "5")>>),
     join(<<s_move, sq("a", "5"), <<"a">> >>),
     join(<<s_move, <<"a", "7", "7">>, sq("a", "5")>>),
     join(<<s_move, sq("a", "7"), <<"a", "5", "5", "5">> >>),
     join(<<s_move, sq("i", "7"), sq("a", "5")>>),
     join(<<s_move, sq("a", "7"), sq("a", "9")>>),
     join(<<s_move, sq("a", "7"), sq("a", "0")>>),
     join(<<s_move, sq("a", "5"), sq("a", "b")>>),
     join(<<s_move, sq("a", "7"), sq("a", "U+00B2")>>)}

s_foo == <<"f", "o", "o">>

\* Lines get_input itself turns down or fails on.
BadLines ==
    {<<>>, <<" ">>, <<" ", "\t", " ">>,
     s_foo, join(<<s_foo, sq("a", "7"), sq("a", "5")>>), <<"M", "o", "v", "e">>,
     s_help, join(<<s_board, s_all>>),
     s_move, join(<<s_move, sq("a", "7")>>),
     join(<<s_move, sq("a", "7"), sq("a", "5"), sq("a", "8")>>),
     join(<<s_newgame, <<"y">> >>), join(<<s_undo, <<"1">> >>),
     join(<<s_exit, <<"y">> >>)}

\* Lines of the other commands.
OtherLines ==
    {join(<<s_help, s_all>>), join(<<s_help, s_move>>), join(<<s_help, s_foo>>),
     s_board, s_newgame, s_save, s_load, s_undo, s_exit,
     <<" ">> \o s_undo \o <<" ", " ">>}

\* The lines typed at the prompt of get_input.
Lines == MoveLines \cup BadMoveLines \cup BadLines \cup OtherLines

\* The lines by what get_input does with them.
LinesTo(to) == {line \in Lines : dispatch(line) = to}
FailingLines == LinesTo("-1") \cup LinesTo("IndexError")
HelpLines    == LinesTo("cmd_help")
BoardLines   == LinesTo("cmd_board")
MoveCmdLines == LinesTo("cmd_move")
NewgameLines == LinesTo("cmd_newgame")
SaveLines    == LinesTo("cmd_save")
LoadLines    == LinesTo("cmd_load")
UndoLines    == LinesTo("cmd_undo")
ExitLines    == LinesTo("cmd_exit")

\* What is typed at a (y / n) prompt.
Answers == {<<"y">>, <<"n">>, <<"q">>, <<>>}
NoAnswer == <<>>

\* The outcomes of the two translator calls of one move or undo.
MsOutcomePairs ==
    {<<"translated", "translated">>, <<"untouched", "OSError">>,
     <<"OSError", "translated">>}
NoMs == <<"translated", "translated">>

\* ------------------------------------------------------------ the actions
\* One iteration of the main loop that reads input_string: get_input runs to
\* its end; the loop stops when it returns "EXIT", the program when it raises.
\* A game is saved while its moves stack holds at most MaxSavedMoves records
\* and a move is made while it holds fewer than MaxMoves.
Iteration(input_string, user_confirm, ms) ==
    /\ run
    /\ \E r \in {get_input(game, save_file, input_string, user_confirm, ms)},
          to \in {dispatch(input_string)} :
        /\ (to = "cmd_move" /\ r.game # game) => Len(game.moves_stack) < MaxMoves
        /\ (to = "cmd_save" /\ r.save_file # save_file)
               => Len(game.moves_stack) <= MaxSavedMoves
        /\ game' = r.game
        /\ save_file' = r.save_file
        /\ ret' = r.ret
        /\ raised' = r.raised
        /\ run' = (r.raised = "none" /\ r.ret # "EXIT")
        /\ called' = (IF to \in {"-1", "IndexError"} THEN "none" ELSE to)
        /\ snaps' = (IF to = "cmd_newgame" /\ user_confirm = <<"y">> THEN <<>>
                     ELSE IF to = "cmd_load" /\ user_confirm = <<"y">> /\ r.ret = "0"
                          THEN saved_snaps
                     ELSE IF to = "cmd_move" /\ r.ret = "0" THEN Append(snaps, game)
                     ELSE IF to = "cmd_undo"
                             /\ Len(r.game.moves_stack) < Len(game.moves_stack)
                          THEN SubSeq(snaps, 1, Len(snaps) - 1)
                     ELSE snaps)
        /\ saved' = (IF to = "cmd_save" /\ user_confirm = <<"y">> THEN game ELSE saved)
        /\ saved_snaps' = (IF to = "cmd_save" /\ user_confirm = <<"y">>
                           THEN snaps
                           ELSE saved_snaps)
        /\ streak' = (IF to = "cmd_undo"
                      THEN IF r.ret = "0" THEN streak + 1 ELSE streak
                      ELSE 0)
        /\ UNCHANGED codec

\* The iteration with the window left aside: the specification of the console
\* does not follow what the display draws.
Step(input_string, user_confirm, ms) ==
    /\ Iteration(input_string, user_confirm, ms)
    /\ UNCHANGED gd

\* get_input ends before it calls a handler.
GetInputFails ==
    /\ run
    /\ \E line \in FailingLines : Step(line, NoAnswer, NoMs)

Help ==
    /\ run
    /\ \E line \in HelpLines : Step(line, NoAnswer, NoMs)

Board ==
    /\ run
    /\ \E line \in BoardLines : Step(line, NoAnswer, NoMs)

Move ==
    /\ run
    /\ \E line \in MoveCmdLines, ms \in MsOutcomePairs : Step(line, NoAnswer, ms)

Newgame ==
    /\ run
    /\ \E line \in NewgameLines, answer \in Answers : Step(line, answer, NoMs)

Save ==
    /\ run
    /\ \E line \in SaveLines, answer \in Answers : Step(line, answer, NoMs)

Load ==
    /\ run
    /\ \E line \in LoadLines, answer \in Answers : Step(line, answer, NoMs)

Undo ==
    /\ run
    /\ \E line \in UndoLines, ms \in MsOutcomePairs : Step(line, NoAnswer, ms)

Exit ==
    /\ run
    /\ \E line \in ExitLines, answer \in Answers : Step(line, answer, NoMs)

Next ==
    \/ GetInputFails
    \/ Help
    \/ Board
    \/ Move
    \/ Newgame
    \/ Save
    \/ Load
    \/ Undo
    \/ Exit

Spec == Init /\ [][Next]_vars

\* ------------------------------------------- the console and its window
\* The lines typed in the specification that follows the window.
DisplayLines ==
    {join(<<s_move, sq("a", "7"), sq("a", "5")>>),
     join(<<s_move, sq("a", "8"), sq("a", "7")>>),
     join(<<s_help, s_all>>), s_board, s_newgame, s_save, s_load, s_undo, s_exit,
     s_foo}

\* The call of get_input has assigned a new game object to self.game:
\* ChessGame() in cmd_newgame, the unpickled game in cmd_load.
GameReplaced(input_string, user_confirm) ==
    \/ dispatch(input_string) = "cmd_newgame" /\ user_confirm = <<"y">>
    \/ dispatch(input_string) = "cmd_load" /\ user_confirm = <<"y">> /\ raised' = "none"

\* One iteration of the main loop with its window: gd.draw_all() draws
\* gd.chessboard, then get_input runs.  Nothing assigns gd.chessboard: it is
\* the board object of the first game, which the handlers change as long as
\* that game is the console's and which stays as it is once it is not.  The
\* translator answers in time in this specification.
DisplayStep(input_string, user_confirm) ==
    /\ Iteration(input_string, user_confirm, NoMs)
    /\ gd' = IF gd.is_game_board /\ ~ GameReplaced(input_string, user_confirm)
             THEN [gd EXCEPT !.chessboard = game'.b]
             ELSE [gd EXCEPT !.is_game_board = FALSE]

DisplayGetInputFails ==
    /\ run
    /\ \E line \in DisplayLines \cap FailingLines : DisplayStep(line, NoAnswer)

DisplayHelp ==
    /\ run
    /\ \E line \in DisplayLines \cap HelpLines : DisplayStep(line, NoAnswer)

DisplayBoard ==
    /\ run
    /\ \E line \in DisplayLines \cap BoardLines : DisplayStep(line, NoAnswer)

DisplayMove ==
    /\ run
    /\ \E line \in DisplayLines \cap MoveCmdLines : DisplayStep(line, NoAnswer)

DisplayNewgame ==
    /\ run
    /\ \E line \in DisplayLines \cap NewgameLines, answer \in Answers :
          DisplayStep(line, answer)

DisplaySave ==
    /\ run
    /\ \E line \in DisplayLines \cap SaveLines, answer \in Answers :
          DisplayStep(line, answer)

DisplayLoad ==
    /\ run
    /\ \E line \in DisplayLines \cap LoadLines, answer \in Answers :
          DisplayStep(line, answer)

DisplayUndo ==
    /\ run
    /\ \E line \in DisplayLines \cap UndoLines : DisplayStep(line, NoAnswer)

DisplayExit ==
    /\ run
    /\ \E line \in DisplayLines \cap ExitLines, answer \in Answers :
          DisplayStep(line, answer)

NextDisplay ==
    \/ DisplayGetInputFails
    \/ DisplayHelp
    \/ DisplayBoard
    \/ DisplayMove
    \/ DisplayNewgame
    \/ DisplaySave
    \/ DisplayLoad
    \/ DisplayUndo
    \/ DisplayExit

SpecDisplay == Init /\ [][NextDisplay]_vars

\* ------------------------------------------- the codec on its own
\* The characters the strings given to notation_to_coord are made of.
CodecChars == {"a", "b", "h", "i", "0", "1", "2", "8", "9", "U+0663", "U+00B2", "("}

\* Every string of CodecChars of length n.
RECURSIVE StringsOfLen(_)
StringsOfLen(n) ==
    IF n = 0 THEN {<<>>}
    ELSE {Append(t, ch) : t \in StringsOfLen(n - 1), ch \in CodecChars}

\* The 64 notations of the tiles of the board.
TileNotations ==
    {<<letters[i], ascii_digits[d + 1]>> : i \in 1..8, d \in 1..8}

\* The strings notation_to_coord is applied to: the 64 notations, and every
\* string of CodecChars of length 1 .. MaxLen (split() yields no empty token).
CodecTexts == TileNotations \cup UNION {StringsOfLen(n) : n \in 1..MaxLen}

CodecStart(law, text, coord) ==
    [codec_idle EXCEPT !.law = law, !.pc = "start", !.text = text, !.coord = coord]

\* The coordinates get_tile is applied to: every pair of indices of absolute
\* value up to MaxIndex.
IndexCoords == (-MaxIndex..MaxIndex) \X (-MaxIndex..MaxIndex)

\* A codec run starts from a string (to be parsed, then formatted) or from a
\* coordinate of the board (to be formatted, then parsed); a get_tile run
\* starts from a pair of indices.
InitCodec ==
    /\ game = ChessGame
    /\ save_file = NoFile
    /\ run = TRUE
    /\ ret = "None"
    /\ raised = "none"
    /\ called = "none"
    /\ snaps = <<>>
    /\ saved = ChessGame
    /\ saved_snaps = <<>>
    /\ streak = 0
    /\ gd = GameDisplay
    /\ codec \in {CodecStart("parse-format", t, NoCoord) : t \in CodecTexts}
                 \cup {CodecStart("format-parse", <<>>, c) : c \in Coords}
                 \cup {CodecStart("get_tile", <<>>, c) : c \in IndexCoords}

game_vars == <<game, save_file, run, ret, raised, called, snaps, saved, saved_snaps, streak,
              gd>>

\* notation_to_coord(text)
ParseText ==
    /\ codec.law = "parse-format"
    /\ codec.pc = "start"
    /\ codec' = [codec EXCEPT !.pc = "parsed", !.parsed = notation_to_coord(codec.text)]
    /\ UNCHANGED game_vars

\* ms_get_coord_to_notation(notation_to_coord(text))
FormatParsed ==
    /\ codec.law = "parse-format"
    /\ codec.pc = "parsed"
    /\ codec.parsed.kind = "coord"
    /\ \E outcome \in MsOutcomes :
          codec' = [codec EXCEPT
                       !.pc = "done",
                       !.said = ms_get_coord_to_notation(codec.parsed.coord, outcome)]
    /\ UNCHANGED game_vars

\* ms_get_coord_to_notation(coord)
FormatCoord ==
    /\ codec.law = "format-parse"
    /\ codec.pc = "start"
    /\ \E outcome \in MsOutcomes :
          codec' = [codec EXCEPT
                       !.pc = "said",
                       !.said = ms_get_coord_to_notation(codec.coord, outcome)]
    /\ UNCHANGED game_vars

\* notation_to_coord(ms_get_coord_to_notation(coord))
ParseSaid ==
    /\ codec.law = "format-parse"
    /\ codec.pc = "said"
    /\ codec.said.raised = "none"
    /\ codec' = [codec EXCEPT !.pc = "done", !.parsed = notation_to_coord(codec.said.line)]
    /\ UNCHANGED game_vars

\* get_tile(coord)
GetTile ==
    /\ codec.law = "get_tile"
    /\ codec.pc = "start"
    /\ codec' = [codec EXCEPT !.pc = "done", !.tile = get_tile(codec.coord)]
    /\ UNCHANGED game_vars

NextCodec ==
    \/ ParseText
    \/ FormatParsed
    \/ FormatCoord
    \/ ParseSaid
    \/ GetTile

SpecCodec == InitCodec /\ [][NextCodec]_vars

\* ============================================================ the claims
\* What the claims say of a board.
Occupied(b) == {c \in Coords : piece_on(b, c) # NoPiece}
HeldBy(b, p) == {c \in Coords : piece_on(b, c) = p}
Top(stack) == stack[Len(stack)]

\* The step was a call of the named handler / one that returned 0.
Handled(name) == called' = name /\ vars' # vars
Succeeded(name) == Handled(name) /\ ret' = "0"

\* ------------------------------------------------------------------- C1
\* C1: after any N successful moves, N successful undos restore the game to
\* its state before the sequence, tile for tile, piece for piece, with the
\* moves stack it had.  snaps holds the game before each move on the stack,
\* so: snaps is as long as the stack, and every successful undo yields the
\* game that the move it undoes started from and leaves the earlier snaps.
C1_UndoRestores ==
    /\ [](Len(snaps) = Len(game.moves_stack))
    /\ [][Succeeded("cmd_undo") =>
            /\ game' = Top(snaps)
            /\ snaps' = SubSeq(snaps, 1, Len(snaps) - 1)]_vars

\* Two moves have been undone by two undos in a row and the game is the one
\* they started from.
C1_Witness ==
    /\ streak = 2
    /\ called = "cmd_undo"
    /\ ret = "0"
    /\ game = ChessGame

\* ------------------------------------------------------------------- C2
\* C2: in every reachable state a piece with position c is on the tile at c,
\* the piece on a tile has that tile's coordinate as position, no piece is on
\* two tiles, and a piece with no position is on no tile.
C2_PieceTileConsistency ==
    /\ \A p \in Pieces :
          game.b.coord[p] # NoCoord =>
              /\ game.b.coord[p] \in Coords
              /\ piece_on(game.b, game.b.coord[p]) = p
    /\ \A c \in Coords :
          piece_on(game.b, c) # NoPiece => game.b.coord[piece_on(game.b, c)] = c
    /\ \A p \in Pieces : Cardinality(HeldBy(game.b, p)) <= 1
    /\ \A p \in Pieces : game.b.coord[p] = NoCoord => HeldBy(game.b, p) = {}

\* An undo has just put a piece back while an earlier capture is still on the
\* stack.
C2_Witness ==
    /\ called = "cmd_undo"
    /\ ret = "0"
    /\ Len(game.moves_stack) = 1
    /\ game.moves_stack[1][3] # NoPiece
    /\ game.moves_stack[1][1] # game.moves_stack[1][2]

\* ------------------------------------------------------------------- C3
\* C3: a move onto a tile that holds another piece Q leaves Q without a
\* position and on no tile and the moved piece on the destination; Q has no
\* position as long as the record of that move is on the stack; the undo of
\* that move puts Q back on the destination.
C3_Captures(g, h) ==
    LET rec == Top(h.moves_stack)
        P == piece_on(g.b, rec[1])
        Q == piece_on(g.b, rec[2])
    IN  (Q # NoPiece /\ Q # P) =>
            /\ h.b.coord[Q] = NoCoord
            /\ HeldBy(h.b, Q) = {}
            /\ piece_on(h.b, rec[2]) = P
            /\ h.b.coord[P] = rec[2]

C3_StaysCaptured(g) ==
    \A k \in 1..Len(g.moves_stack) :
        LET rec == g.moves_stack[k]
        IN  (rec[3] # NoPiece /\ rec[1] # rec[2]) =>
                /\ g.b.coord[rec[3]] = NoCoord
                /\ HeldBy(g.b, rec[3]) = {}

C3_Restores(g, h) ==
    LET rec == Top(g.moves_stack)
    IN  rec[3] # NoPiece =>
            /\ piece_on(h.b, rec[2]) = rec[3]
            /\ h.b.coord[rec[3]] = rec[2]

C3_CaptureUntilUndo ==
    /\ [][Succeeded("cmd_move") => C3_Captures(game, game')]_vars
    /\ []C3_StaysCaptured(game)
    /\ [][Succeeded("cmd_undo") => C3_Restores(game, game')]_vars

\* A piece taken by the first move is still out of play after a second move.
C3_Witness ==
    /\ called = "cmd_move"
    /\ ret = "0"
    /\ Len(game.moves_stack) = 2
    /\ game.moves_stack[1][3] # NoPiece
    /\ game.moves_stack[1][1] # game.moves_stack[1][2]
    /\ game.b.coord[game.moves_stack[1][3]] = NoCoord

\* ------------------------------------------------------------------- C4
\* C4: a move command that does not complete successfully leaves the board
\* and the moves stack as they were: the board never changes in a move
\* command that pushes no record.
C4_NoPartialMutation ==
    [][(Handled("cmd_move") /\ ret' # "0") => game' = game]_vars

\* ------------------------------------------------------------------- C5
\* The tokens after the command word.
ArgumentsOf(line) == Tail(split(line))

\* The first argument of the line is the notation of a tile that is empty.
SourceValidAndEmpty(line) ==
    LET source == notation_to_coord(ArgumentsOf(line)[1])
    IN  source.kind = "coord" /\ piece_on(game.b, source.coord) = NoPiece

\* C5: a move command whose source notation is valid and whose source tile is
\* empty returns -1 and leaves the tiles, the positions and the moves stack
\* unchanged.
C5_EmptySource ==
    [][\A line \in MoveCmdLines, ms \in MsOutcomePairs :
          (SourceValidAndEmpty(line) /\ Step(line, NoAnswer, ms)) =>
              /\ ret' = "-1"
              /\ game' = game]_vars

\* ------------------------------------------------------------------- C6
\* C6: an undo command on an empty moves stack returns -1 and leaves the
\* board and the empty stack unchanged.
C6_UndoOnEmptyHistory ==
    [][(Handled("cmd_undo") /\ game.moves_stack = <<>>) =>
          /\ ret' = "-1"
          /\ raised' = "none"
          /\ game' = game]_vars

\* After two moves, two undos have succeeded and a third has returned -1.
C6_Witness ==
    /\ called = "cmd_undo"
    /\ ret = "-1"
    /\ streak = 2
    /\ game.moves_stack = <<>>

\* ------------------------------------------------------------------- C7
\* The line is empty, or its first token is no command name, or the number
\* of its tokens is not the one the command takes.
TurnedDown(line) ==
    \/ Len(line) = 0
    \/ LET tokens == split(line)
       IN  /\ Len(tokens) > 0
           /\ \/ \A name \in DOMAIN command_dict : name # tokens[1]
              \/ \E name \in DOMAIN command_dict :
                    /\ name = tokens[1]
                    /\ Len(tokens) # command_dict[name].cmd_arg_count

TurnedDownLines == {line \in Lines : TurnedDown(line)}

\* C7: such a line makes get_input return -1 without calling a handler, and
\* leaves the board, the moves stack and the save file unchanged: in every
\* reachable state get_input does so for each such line, and every step in
\* which no handler is called and nothing is raised returns -1 and changes
\* neither the game nor the save file.
C7_TurnedDown ==
    /\ [](\A line \in TurnedDownLines :
             /\ dispatch(line) = "-1"
             /\ get_input(game, save_file, line, NoAnswer, NoMs)
                    = Returns(game, save_file, "-1"))
    /\ [][(called' = "none" /\ raised' = "none") =>
             /\ ret' = "-1"
             /\ game' = game
             /\ save_file' = save_file]_vars

\* A line has been turned down in the middle of a game.
C7_Witness ==
    /\ called = "none"
    /\ ret = "-1"
    /\ run
    /\ Len(game.moves_stack) = 2

\* ------------------------------------------------------------------- C8
\* C8: the loop stops only when an exit command is confirmed; every other
\* line makes get_input return 0 or -1 and the loop goes on; no line ends the
\* program through an exception.
C8_OnlyExitStops ==
    /\ raised = "none"
    /\ ~ run => (called = "cmd_exit" /\ ret = "EXIT")
    /\ run => ret \in {"None", "0", "-1"}

\* ------------------------------------------------------------------- C9
\* The notation of a tile, as the claims define it: a letter 'a'-'h' and a
\* digit '1'-'8'; its coordinate is (8 - digit, index of the letter).
FileLetters == {"a", "b", "c", "d", "e", "f", "g", "h"}
RankDigits == {"1", "2", "3", "4", "5", "6", "7", "8"}
WellFormed(text) == Len(text) = 2 /\ text[1] \in FileLetters /\ text[2] \in RankDigits
FileIndex(ch) == CHOOSE i \in 0..7 : letters[i + 1] = ch
RankValue(ch) == CHOOSE d \in 1..8 : ascii_digits[d + 1] = ch
CoordOf(text) == <<8 - RankValue(text[2]), FileIndex(text[1])>>
NotationOf(coord) == <<letters[coord[2] + 1], ascii_digits[(8 - coord[1]) + 1]>>

\* C9: notation_to_coord returns the coordinate of each of the 64 notations
\* and the value -1 for every other token.
C9_AcceptsExactly64 ==
    (codec.law = "parse-format" /\ codec.pc # "start") =>
        codec.parsed = IF WellFormed(codec.text)
                       THEN Parsed(CoordOf(codec.text))
                       ELSE ParseFail

\* ------------------------------------------------------------------ C10
\* C10: what ms_get_coord_to_notation returns is the notation of its
\* coordinate; notation_to_coord of it is the coordinate; and the notation of
\* the coordinate of a well-formed notation is that notation.
C10_RoundTrip ==
    /\ (codec.law = "format-parse" /\ codec.pc # "start" /\ codec.said.raised = "none")
           => codec.said.line = NotationOf(codec.coord)
    /\ (codec.law = "format-parse" /\ codec.pc = "done")
           => codec.parsed = Parsed(codec.coord)
    /\ (codec.law = "parse-format" /\ codec.pc = "done" /\ WellFormed(codec.text)
            /\ codec.said.raised = "none")
           => codec.said.line = codec.text

\* ------------------------------------------------------------------ C11
\* The standard layout, as the claim spells it out.
BackRank == <<"R", "N", "B", "Q", "K", "B", "N", "R">>

HoldsPiece(b, c, type, side) ==
    /\ piece_on(b, c) # NoPiece
    /\ piece_type(piece_on(b, c)) = type
    /\ team(piece_on(b, c)) = side

StandardGame(g) ==
    /\ Cardinality(Occupied(g.b)) = 32
    /\ \A side \in {1, 2} :
          Cardinality({c \in Occupied(g.b) : team(piece_on(g.b, c)) = side}) = 16
    /\ \A j \in 0..7 :
          /\ HoldsPiece(g.b, <<0, j>>, BackRank[j + 1], 2)
          /\ HoldsPiece(g.b, <<1, j>>, "P", 2)
          /\ HoldsPiece(g.b, <<6, j>>, "P", 1)
          /\ HoldsPiece(g.b, <<7, j>>, BackRank[j + 1], 1)
    /\ \A i \in 2..5, j \in 0..7 : piece_on(g.b, <<i, j>>) = NoPiece
    /\ g.moves_stack = <<>>

\* C11: the game the program starts with, and the game after every newgame
\* answered 'y', has the standard layout (32 tiles occupied, 16 pieces a
\* team, the back ranks and the pawn ranks in place, rows 2-5 empty) and an
\* empty moves stack.
C11_StandardSetup ==
    /\ StandardGame(game)
    /\ [][called' = "cmd_newgame" =>
             \A line \in NewgameLines :
                 Step(line, <<"y">>, NoMs) => StandardGame(game')]_vars

\* A newgame has returned 0 with the standard layout on the board, after a
\* game with a move on its stack had been saved.
C11_Witness ==
    /\ called = "cmd_newgame"
    /\ ret = "0"
    /\ StandardGame(game)
    /\ save_file.exists
    /\ Len(saved.moves_stack) = 1

\* ------------------------------------------------------------------ C12
\* Both arguments of the line are notations of tiles.
BothWellFormed(line) ==
    WellFormed(ArgumentsOf(line)[1]) /\ WellFormed(ArgumentsOf(line)[2])

\* Between boards b and c exactly the piece on src has gone to the empty dst.
Relocated(b, c, src, dst) ==
    LET P == piece_on(b, src)
    IN  /\ P # NoPiece
        /\ piece_on(c, src) = NoPiece
        /\ piece_on(c, dst) = P
        /\ c.coord[P] = dst
        /\ \A t \in Coords \ {src, dst} : piece_on(c, t) = piece_on(b, t)
        /\ \A q \in Pieces \ {P} : c.coord[q] = b.coord[q]
        /\ Cardinality(Occupied(c)) = Cardinality(Occupied(b))

\* A move that returns 0 and whose destination was empty is a relocation.
C12_Relocation(line) ==
    LET src == CoordOf(ArgumentsOf(line)[1])
        dst == CoordOf(ArgumentsOf(line)[2])
    IN  (ret' = "0" /\ src # dst /\ piece_on(game.b, dst) = NoPiece)
            => Relocated(game.b, game'.b, src, dst)

\* 'move a7 a5' on the initial position returns 0, takes the pawn from (1,0)
\* to (3,0) and leaves 32 tiles occupied.
C12_Example(line) ==
    (line = join(<<s_move, sq("a", "7"), sq("a", "5")>>) /\ game.b = ChessBoard)
        => /\ ret' = "0"
           /\ piece_on(game'.b, <<1, 0>>) = NoPiece
           /\ piece_on(game'.b, <<3, 0>>) = piece_on(ChessBoard, <<1, 0>>)
           /\ piece_type(piece_on(game'.b, <<3, 0>>)) = "P"
           /\ Cardinality(Occupied(game'.b)) = 32

\* C12: a successful move command to an empty destination relocates exactly
\* the piece on the source to the destination (source empty, destination
\* holds the piece, every other tile unchanged, as many tiles occupied), and
\* 'move a7 a5' on the initial position returns 0 and takes the pawn from
\* (1,0) to (3,0) with 32 tiles occupied.
C12_MoveRelocates ==
    [][called' = "cmd_move" =>
          \A line \in MoveCmdLines, ms \in MsOutcomePairs :
              (BothWellFormed(line) /\ Step(line, NoAnswer, ms)) =>
                  /\ C12_Relocation(line)
                  /\ C12_Example(line)]_vars

\* ------------------------------------------------------------------ C13
\* C13: is_moved is false for every piece at setup, is true of a piece once
\* a move has taken it to another tile, and once true stays true as long as
\* the game is the same (an undo does not reset it).
C13_HasMoved ==
    /\ \A p \in Pieces : ~ is_moved(game.b, p)
    /\ [][Succeeded("cmd_move") =>
             LET rec == Top(game'.moves_stack)
             IN  rec[1] # rec[2] => is_moved(game'.b, piece_on(game'.b, rec[2]))]_vars
    /\ [][called' \notin {"cmd_newgame", "cmd_load"} =>
             \A p \in Pieces : is_moved(game.b, p) => is_moved(game'.b, p)]_vars

\* ------------------------------------------------------------------ C14
\* A component of the coordinate is below 0 or above 7.
OutOfBounds(coord) == \E i \in 1..2 : coord[i] < 0 \/ coord[i] > 7

\* C14: get_tile raises an index error for every coordinate with a component
\* below 0 or above 7, and returns the tile whose coordinate is the one
\* asked for exactly when is_in_bounds holds of it.
C14_GetTile ==
    (codec.law = "get_tile" /\ codec.pc = "done") =>
        /\ OutOfBounds(codec.coord) => codec.tile.raised = "IndexError"
        /\ is_in_bounds(codec.coord)
               <=> (codec.tile.raised = "none" /\ codec.tile.coord = codec.coord)

\* ------------------------------------------------------------------ C15
\* The move lines whose <from> equals <to>.
SelfMoveLines ==
    {line \in MoveCmdLines :
        BothWellFormed(line) /\ ArgumentsOf(line)[1] = ArgumentsOf(line)[2]}

\* The piece is held by the tile at c and by no other, and c is its position.
StandsOn(b, p, c) == HeldBy(b, p) = {c} /\ b.coord[p] = c

\* C15: placing a piece on the coordinate it already has leaves the board as
\* it is, for every piece on the board in every reachable state; a move
\* command whose <from> equals <to> leaves the board of every reachable state
\* as it is, the piece still on that tile with that tile's coordinate as its
\* position; and every step that pushes the record of such a move has left
\* the board as it was.
C15_SelfPlacement ==
    /\ [](\A p \in Pieces :
             game.b.coord[p] # NoCoord =>
                 \A placed \in {set_piece_coord(game.b, p, game.b.coord[p])} :
                     /\ placed = game.b
                     /\ StandsOn(placed, p, game.b.coord[p]))
    /\ [](\A line \in SelfMoveLines, ms \in MsOutcomePairs :
             \A r \in {get_input(game, save_file, line, NoAnswer, ms)} :
                 LET c == CoordOf(ArgumentsOf(line)[1])
                     P == piece_on(game.b, c)
                 IN  /\ r.game.b = game.b
                     /\ P # NoPiece => StandsOn(r.game.b, P, c))
    /\ [][(/\ Succeeded("cmd_move")
           /\ Top(game'.moves_stack)[1] = Top(game'.moves_stack)[2])
             => game'.b = game.b]_vars

\* A move of a piece to its own tile has returned 0: its record names the
\* piece itself as the piece that was on the destination, and the piece
\* stands on the tile.
C15_Witness ==
    /\ called = "cmd_move"
    /\ ret = "0"
    /\ Len(game.moves_stack) > 0
    /\ Top(game.moves_stack)[1] = Top(game.moves_stack)[2]
    /\ Top(game.moves_stack)[3] # NoPiece
    /\ StandsOn(game.b, Top(game.moves_stack)[3], Top(game.moves_stack)[1])

\* ------------------------------------------------------------------ C16
\* C16: newgame answered 'y' returns 0 and leaves a fresh game (standard
\* layout, no piece moved, empty moves stack) whatever the game was; answered
\* 'n' it returns 0 and answered anything else it returns -1, and in both
\* cases the board and the moves stack are as before.
C16_Newgame ==
    [][called' = "cmd_newgame" =>
          \A line \in NewgameLines, answer \in Answers :
              Step(line, answer, NoMs) =>
                  /\ raised' = "none"
                  /\ answer = <<"y">> =>
                         /\ ret' = "0"
                         /\ StandardGame(game')
                         /\ \A p \in Pieces : ~ is_moved(game'.b, p)
                  /\ answer = <<"n">> => (ret' = "0" /\ game' = game)
                  /\ answer \notin {<<"y">>, <<"n">>} => (ret' = "-1" /\ game' = game)]_vars

\* A newgame has been answered with neither 'y' nor 'n' in a game with two
\* moves on its stack, which is still there.
C16_Witness ==
    /\ called = "cmd_newgame"
    /\ ret = "-1"
    /\ run
    /\ Len(game.moves_stack) = 2
    /\ ~ StandardGame(game)

\* ------------------------------------------------------------------ C17
\* C17: whatever is done between a confirmed save and a confirmed load, the
\* game after the load is the game at the time of the save: the same piece
\* on each of the 64 tiles, the same position of each piece, the same moves
\* stack with the same captured pieces in its records, and the same games
\* for the undos of its moves to go back to.  saved is the game at the time
\* of the last confirmed save; only a confirmed save changes the file.
C17_SaveLoad ==
    /\ [](save_file.exists => pickle_load(save_file.data) = saved)
    /\ [][called' # "cmd_save" => save_file' = save_file]_vars
    /\ [][called' = "cmd_load" =>
             \A line \in LoadLines :
                 (save_file.exists /\ Step(line, <<"y">>, NoMs)) =>
                     /\ ret' = "0"
                     /\ game' = saved
                     /\ \A c \in Coords : piece_on(game'.b, c) = piece_on(saved.b, c)
                     /\ game'.moves_stack = saved.moves_stack
                     /\ snaps' = saved_snaps]_vars

\* A load has returned 0 and the game is the saved one, whose stack holds a
\* capture, while the game before the load may have been any other.
C17_Witness ==
    /\ called = "cmd_load"
    /\ ret = "0"
    /\ save_file.exists
    /\ game = saved
    /\ Len(game.moves_stack) = 1
    /\ game.moves_stack[1][3] # NoPiece
    /\ game.moves_stack[1][1] # game.moves_stack[1][2]
    /\ game.b.coord[game.moves_stack[1][3]] = NoCoord

\* ------------------------------------------------------------------ C18
\* The pieces named as captured by the records on the moves stack.
CapturedOnStack(g) ==
    {g.moves_stack[k][3] : k \in 1..Len(g.moves_stack)} \ {NoPiece}

\* C18: in every reachable state each of the 32 pieces is on exactly one
\* tile or is the captured piece of a record on the moves stack, and none is
\* on two tiles.
C18_PiecesAccounted ==
    \A p \in Pieces :
        /\ Cardinality(HeldBy(game.b, p)) <= 1
        /\ Cardinality(HeldBy(game.b, p)) = 1 \/ p \in CapturedOnStack(game)

\* ------------------------------------------------------------------ C19
\* The step pushes one record on the moves stack: the tile the moved piece
\* stood on, the tile it stands on now, and the piece that was on that tile
\* before (NoPiece if none).
PushesRecord ==
    /\ Len(game'.moves_stack) = Len(game.moves_stack) + 1
    /\ SubSeq(game'.moves_stack, 1, Len(game.moves_stack)) = game.moves_stack
    /\ LET rec == Top(game'.moves_stack)
       IN  /\ piece_on(game.b, rec[1]) # NoPiece
           /\ piece_on(game'.b, rec[2]) = piece_on(game.b, rec[1])
           /\ rec[3] = piece_on(game.b, rec[2])

\* The step pops the top record of the moves stack.
PopsRecord ==
    /\ Len(game.moves_stack) > 0
    /\ game'.moves_stack = SubSeq(game.moves_stack, 1, Len(game.moves_stack) - 1)

\* C19: a successful move pushes exactly one record [source, destination,
\* piece that was on the destination or None], a successful undo pops exactly
\* the top record, and no other command changes the stack of the game it is
\* given (newgame and load replace the game); so the length of the stack is
\* the number of successful moves less the number of successful undos.
C19_StackDiscipline ==
    /\ [][Succeeded("cmd_move") => PushesRecord]_vars
    /\ [][Succeeded("cmd_undo") => PopsRecord]_vars
    /\ [][(/\ ~ Succeeded("cmd_move")
           /\ ~ Succeeded("cmd_undo")
           /\ called' \notin {"cmd_newgame", "cmd_load"})
             => game'.moves_stack = game.moves_stack]_vars

\* ------------------------------------------------------------------ C20
\* The first argument of the line is the notation of a tile with a piece.
SourceHoldsPiece(line) ==
    piece_on(game.b, CoordOf(ArgumentsOf(line)[1])) # NoPiece

\* C20: a move command with two valid notations and a piece on the source
\* tile returns 0, whatever the piece and whatever is on the destination (a
\* piece of the same team included).
C20_MoveAlwaysSucceeds ==
    [][called' = "cmd_move" =>
          \A line \in MoveCmdLines, ms \in MsOutcomePairs :
              (/\ BothWellFormed(line)
               /\ SourceHoldsPiece(line)
               /\ Step(line, NoAnswer, ms)) => ret' = "0"]_vars

\* ------------------------------------------------------------------ C21
\* The piece the top record of the moves stack moved: the one that stood on
\* the record's source tile in the game before that move.
MovedByTop == piece_on(Top(snaps).b, Top(game.moves_stack)[1])

\* C21: whenever the moves stack is not empty, the destination tile of its
\* top record holds a piece, and it is the piece that the recorded move
\* moved; so cmd_undo never finds the destination tile empty (it never
\* raises AttributeError on moved_piece being None).
C21_TopDestinationHeld ==
    /\ raised # "AttributeError"
    /\ game.moves_stack # <<>> =>
           /\ Len(snaps) = Len(game.moves_stack)
           /\ MovedByTop # NoPiece
           /\ piece_on(game.b, Top(game.moves_stack)[2]) = MovedByTop

\* ------------------------------------------------------------------ C22
\* The piece the k-th record of the moves stack moved.
MovedBy(k) == piece_on(snaps[k].b, game.moves_stack[k][1])

\* The records of the moves stack whose captured piece is not None.
CaptureRecords == {k \in 1..Len(game.moves_stack) : game.moves_stack[k][3] # NoPiece}

\* C22: in every reachable state the captured piece of every record on the
\* moves stack has no position, is held by no tile and is not the piece the
\* record moved; and the number of occupied tiles is 32 less the number of
\* records whose captured piece is not None.
C22_CapturedOutOfPlay ==
    /\ Len(snaps) = Len(game.moves_stack)
    /\ \A k \in CaptureRecords :
          /\ game.b.coord[game.moves_stack[k][3]] = NoCoord
          /\ HeldBy(game.b, game.moves_stack[k][3]) = {}
          /\ game.moves_stack[k][3] # MovedBy(k)
    /\ Cardinality(Occupied(game.b)) = 32 - Cardinality(CaptureRecords)

\* ------------------------------------------------------------------ C23
\* C23: at every iteration of the loop the board the display draws is the
\* board of the console's game: the same object, and so tile for tile the
\* same pieces, also after a newgame or a load answered 'y' and after a move
\* made in the new game.
C23_DisplayShowsGame ==
    run => /\ gd.is_game_board
           /\ gd.chessboard = game.b

====
